---- MODULE Spec2Model ----
(***************************************************************************)
(* The timer/task state machine of pomodorust: struct App (src/app.rs),    *)
(* its methods, and the tick block of the driver loop run_app              *)
(* (src/main.rs).  Durations are whole seconds.  Option<usize> is a        *)
(* sequence of length at most one: << >> is None and <<i>> is Some(i),     *)
(* with i the 0-based index of the source.  Of Settings the three          *)
(* durations are modelled; theme and desktop_notifications are read by the *)
(* renderer and the notifier only.  A timestamp is the reading of a clock  *)
(* that advances with every task created, so that creation_date names a    *)
(* task.  An operation is one method of App, or the tick block; the text   *)
(* submit_task reads from current_input is an input of the operation.      *)
(***************************************************************************)
EXTENDS Integers, Sequences, FiniteSets, TLC

VARIABLES
    mode,                       \* App.mode
    state,                      \* App.state
    time_remaining,             \* App.time_remaining, seconds
    pomodoros_completed_total,  \* App.pomodoros_completed_total
    tasks,                      \* App.tasks
    active_task_index,          \* App.active_task_index
    completed_task_list_state,  \* App.completed_task_list_state
    settings,                   \* App.settings
    settings_selection,         \* App.settings_selection
    finished_mode,              \* run_app: what next_mode returned in this iteration
    clock,                      \* Utc::now(), counted in task creations
    panicked,                   \* the process aborted on a Rust panic
    exited,                     \* run_app returned: the process is over
    disk,                       \* the state file, None while there is none
    should_quit,                \* App.should_quit
    current_view,               \* App.current_view
    previous_view               \* App.previous_view

\* The view on screen and the one to go back to.
views == <<current_view, previous_view>>

vars == <<mode, state, time_remaining, pomodoros_completed_total, tasks,
          active_task_index, completed_task_list_state, settings,
          settings_selection, finished_mode, clock, panicked, exited, disk,
          should_quit, views>>

\* Everything of App that the timer and the task registry own.
appvars == <<mode, state, time_remaining, pomodoros_completed_total, tasks,
             active_task_index, completed_task_list_state, settings,
             settings_selection>>

-----------------------------------------------------------------------------
(* Bounds of the model *)

MaxTasks == 2          \* tasks in the list at one time
MaxCreated == 2        \* tasks created over a run
MaxSessions == 2       \* finished Pomodoro sessions over a run, all operations
MaxCycleSessions == 8  \* finished Pomodoro sessions over a run, timer operations
MaxMins == 2           \* largest configured duration, minutes
MaxSpentMins == 1      \* largest time_spent of a task, minutes
MaxPersistSessions == 1  \* finished Pomodoro sessions, runs over one state file
MaxListTasks == 3      \* tasks in the list at one time, task operations
MaxLiveSessions == 5   \* finished Pomodoro sessions over a run, timer left alone
MaxLiveSpentMins == 4  \* minutes of time_spent of the task, timer left alone
MaxListCreated == 3    \* tasks created over a run, task operations

SecsPerMin == 60

\* Elapsed time of one tick, seconds (every value is >= tick_rate).
TickElapsed == {60, 120}

\* enum View
Views == {"Timer", "TaskList", "Statistics", "Settings", "TaskDetails"}

Modes == {"Pomodoro", "ShortBreak", "LongBreak"}

-----------------------------------------------------------------------------
(* Option<usize> *)

None == << >>
Some(i) == <<i>>
is_some(o) == o # << >>
unwrap(o) == o[1]

-----------------------------------------------------------------------------
(* Pure helpers *)

\* Mutant: a new task starts with one Pomodoro counted.
TaskNew_counted(name, created) ==
    [name |-> name, completed |-> FALSE, pomodoros |-> 1, time_spent |-> 0,
     creation_date |-> created, completion_date |-> None]

\* Task::new
TaskNew(name, created) ==
    [name |-> name, completed |-> FALSE, pomodoros |-> 0, time_spent |-> 0,
     creation_date |-> created, completion_date |-> None]

\* Mode::duration
duration(m, s) ==
    CASE m = "Pomodoro" -> s.pomodoro_duration
      [] m = "ShortBreak" -> s.short_break_duration
      [] m = "LongBreak" -> s.long_break_duration

\* Vec::get: the 0-based index i addresses an element of the list ts
in_range(i, ts) == i >= 0 /\ i < Len(ts)

\* ts[i], 0-based
at(ts, i) == ts[i + 1]

\* Vec::swap(i, j), 0-based, both in range
swap(ts, i, j) ==
    [k \in 1..Len(ts) |->
        IF k = i + 1 THEN ts[j + 1] ELSE IF k = j + 1 THEN ts[i + 1] ELSE ts[k]]

\* Mutant: Vec::swap_remove(i), the last element takes the place of the removed one.
swap_remove(ts, i) ==
    [k \in 1..(Len(ts) - 1) |-> IF k = i + 1 THEN ts[Len(ts)] ELSE ts[k]]

\* Vec::remove(i), 0-based, in range
remove(ts, i) ==
    [k \in 1..(Len(ts) - 1) |-> IF k < i + 1 THEN ts[k] ELSE ts[k + 1]]

\* tasks.iter().enumerate().filter(|(_, t)| t.completed == c).map(|(i, _)| i).collect()
RECURSIVE indices_where(_, _, _)
indices_where(ts, c, k) ==
    IF k > Len(ts) THEN << >>
    ELSE IF ts[k].completed = c
         THEN <<k - 1>> \o indices_where(ts, c, k + 1)
         ELSE indices_where(ts, c, k + 1)

uncompleted_tasks_indices(ts) == indices_where(ts, FALSE, 1)

\* Mutant: the statistics list is taken over every task, completed or not.
all_indices(ts) == [k \in 1..Len(ts) |-> k - 1]

completed_indices(ts) == indices_where(ts, TRUE, 1)

\* iter().position(|&i| i == x): 0-based position of x in the sequence s, or None
position(s, x) ==
    IF \E k \in 1..Len(s) : s[k] = x
    THEN Some((CHOOSE k \in 1..Len(s) : s[k] = x /\ \A j \in 1..(k - 1) : s[j] # x) - 1)
    ELSE None

\* The active index addresses an existing task that is not completed.
ActiveUncompleted ==
    /\ is_some(active_task_index)
    /\ in_range(unwrap(active_task_index), tasks)
    /\ ~at(tasks, unwrap(active_task_index)).completed

-----------------------------------------------------------------------------
(* Initial state: App::default() under the settings main() hands over *)

Init ==
    /\ \E p \in 1..MaxMins, s \in 1..MaxMins, l \in 1..MaxMins :
          settings = [pomodoro_duration |-> p * SecsPerMin,
                      short_break_duration |-> s * SecsPerMin,
                      long_break_duration |-> l * SecsPerMin]
    /\ mode = "Pomodoro"
    /\ state = "Paused"
    /\ time_remaining = duration("Pomodoro", settings)
    /\ pomodoros_completed_total = 0
    /\ tasks = << >>
    /\ active_task_index = None
    /\ completed_task_list_state = None
    /\ settings_selection = 0
    /\ finished_mode = "None"
    /\ clock = 0
    /\ panicked = FALSE
    /\ exited = FALSE
    /\ disk = None
    /\ should_quit = FALSE
    /\ current_view = "TaskList"
    /\ previous_view = "TaskList"

\* Settings::default()
default_settings ==
    [pomodoro_duration |-> 25 * SecsPerMin,
     short_break_duration |-> 5 * SecsPerMin,
     long_break_duration |-> 15 * SecsPerMin]

\* Initial state of a first run without a settings file: App::default()
InitDefault ==
    /\ settings = default_settings
    /\ mode = "Pomodoro"
    /\ state = "Paused"
    /\ time_remaining = duration("Pomodoro", settings)
    /\ pomodoros_completed_total = 0
    /\ tasks = << >>
    /\ active_task_index = None
    /\ completed_task_list_state = None
    /\ settings_selection = 0
    /\ finished_mode = "None"
    /\ clock = 0
    /\ panicked = FALSE
    /\ exited = FALSE
    /\ disk = None
    /\ should_quit = FALSE
    /\ current_view = "TaskList"
    /\ previous_view = "TaskList"

\* run_app is in its loop.
Alive == ~panicked /\ ~exited

\* A Rust panic: the process aborts where it stands.
Panic ==
    /\ panicked' = TRUE
    /\ UNCHANGED <<appvars, clock, exited, disk, should_quit, views>>
    /\ finished_mode' = "None"

-----------------------------------------------------------------------------
(* Timer engine *)

\* No session finished in this iteration of the driver loop.
NoSignal == finished_mode' = "None"

\* App::toggle_timer
toggle_timer ==
    /\ Alive
    /\ IF is_some(active_task_index)
       THEN IF ~in_range(unwrap(active_task_index), tasks)
            THEN Panic                     \* self.tasks[index] out of bounds
            ELSE /\ state' = IF at(tasks, unwrap(active_task_index)).completed
                             THEN state
                             ELSE IF state = "Paused" THEN "Running" ELSE "Paused"
                 /\ UNCHANGED <<mode, time_remaining, pomodoros_completed_total, tasks,
                                active_task_index, completed_task_list_state, settings,
                                settings_selection, clock, panicked, exited, disk, should_quit, views>>
                 /\ NoSignal
       ELSE UNCHANGED <<appvars, clock, panicked, exited, disk, should_quit, views>> /\ NoSignal

\* Mutant: the timer is set back to the full duration but not paused.
reset_timer_running ==
    /\ Alive
    /\ time_remaining' = duration(mode, settings)
    /\ UNCHANGED <<mode, state, pomodoros_completed_total, tasks, active_task_index,
                   completed_task_list_state, settings, settings_selection,
                   clock, panicked, exited, disk, should_quit, views>>
    /\ NoSignal

\* App::reset_timer
reset_timer ==
    /\ Alive
    /\ state' = "Paused"
    /\ time_remaining' = duration(mode, settings)
    /\ UNCHANGED <<mode, pomodoros_completed_total, tasks, active_task_index,
                   completed_task_list_state, settings, settings_selection,
                   clock, panicked, exited, disk, should_quit, views>>
    /\ NoSignal

\* App::set_mode
set_mode(m) ==
    /\ Alive
    /\ mode' = m
    /\ state' = "Paused"
    /\ time_remaining' = duration(m, settings)
    /\ UNCHANGED <<pomodoros_completed_total, tasks, active_task_index,
                   completed_task_list_state, settings, settings_selection,
                   clock, panicked, exited, disk, should_quit, views>>
    /\ NoSignal

\* Mutant: the counter is incremented when any session ends.
total_after_always(m, total) == total + 1

\* App::next_mode, the counter: incremented when a Pomodoro ends
total_after(m, total) == IF m = "Pomodoro" THEN total + 1 ELSE total

\* Mutant: a Pomodoro is never followed by a long break.
mode_after_short(m, total) == IF m = "Pomodoro" THEN "ShortBreak" ELSE "Pomodoro"

\* Mutant: the long break is decided on the counter before the increment.
mode_after_pre(m, total) ==
    IF m = "Pomodoro"
    THEN IF (total - 1) % 4 = 0 THEN "LongBreak" ELSE "ShortBreak"
    ELSE "Pomodoro"

\* App::next_mode, the new mode; total is the counter after the increment
mode_after(m, total) ==
    IF m = "Pomodoro"
    THEN IF total % 4 = 0 THEN "LongBreak" ELSE "ShortBreak"
    ELSE "Pomodoro"

\* Mutant: the finished Pomodoro is not credited to the active task.
tasks_after_none(m, ts, idx) == ts

\* App::next_mode, the task list: the active task earns one pomodoro
tasks_after(m, ts, idx) ==
    IF m = "Pomodoro" /\ is_some(idx) /\ in_range(unwrap(idx), ts)
    THEN [ts EXCEPT ![unwrap(idx) + 1].pomodoros = @ + 1]
    ELSE ts

\* Mutant: the timer stays paused after reset_timer.
state_after_paused(ts, idx) == "Paused"

\* App::next_mode, the timer state after reset_timer: auto-continue
state_after(ts, idx) ==
    IF is_some(idx) /\ ~at(ts, unwrap(idx)).completed THEN "Running" ELSE "Paused"

\* App::next_mode; its return value goes to finished_mode
next_mode ==
    IF is_some(active_task_index) /\ ~in_range(unwrap(active_task_index), tasks)
    THEN Panic                             \* self.tasks[index] out of bounds
    ELSE /\ pomodoros_completed_total' = total_after(mode, pomodoros_completed_total)
         /\ tasks' = tasks_after(mode, tasks, active_task_index)
         /\ mode' = mode_after(mode, pomodoros_completed_total')
         /\ time_remaining' = duration(mode', settings)
         /\ state' = state_after(tasks', active_task_index)
         /\ finished_mode' = mode
         /\ UNCHANGED <<active_task_index, completed_task_list_state, settings,
                        settings_selection, clock, panicked, exited, disk, should_quit, views>>

\* run_app, the tick block, time still left: the active task is credited
spent_after(ts, idx, elapsed) ==
    IF is_some(idx) /\ in_range(unwrap(idx), ts)
    THEN [ts EXCEPT ![unwrap(idx) + 1].time_spent = @ + elapsed]
    ELSE ts

\* Mutant: elapsed is subtracted without checked_sub.
tick_running_unchecked(elapsed) ==
    /\ time_remaining' = time_remaining - elapsed
    /\ tasks' = spent_after(tasks, active_task_index, elapsed)
    /\ UNCHANGED <<mode, state, pomodoros_completed_total,
                   active_task_index, completed_task_list_state,
                   settings, settings_selection, clock, panicked, exited, disk, should_quit, views>>
    /\ NoSignal

\* run_app, the tick block, the timer is Running
tick_running(elapsed) ==
    IF time_remaining >= elapsed                  \* checked_sub is Some
    THEN /\ time_remaining' = time_remaining - elapsed
         /\ tasks' = spent_after(tasks, active_task_index, elapsed)
         /\ UNCHANGED <<mode, state, pomodoros_completed_total,
                        active_task_index, completed_task_list_state,
                        settings, settings_selection, clock, panicked, exited, disk, should_quit, views>>
         /\ NoSignal
    ELSE next_mode

\* Mutant: the tick block does not look at the timer state.
tick_unguarded(elapsed) == Alive /\ tick_running(elapsed)

\* run_app, the tick block
tick(elapsed) ==
    /\ Alive
    /\ IF state = "Running"
       THEN tick_running(elapsed)
       ELSE UNCHANGED <<appvars, clock, panicked, exited, disk, should_quit, views>> /\ NoSignal

-----------------------------------------------------------------------------
(* Task registry and selection *)

\* String::is_empty
is_empty(input) == input = ""

\* App::submit_task, with current_input = input
submit_task(input) ==
    /\ Alive
    /\ IF ~is_empty(input)
       THEN /\ tasks' = Append(tasks, TaskNew(input, clock))
            /\ clock' = clock + 1
            /\ active_task_index' = IF Len(tasks') = 1 THEN Some(0) ELSE active_task_index
            /\ UNCHANGED <<mode, state, time_remaining, pomodoros_completed_total,
                           completed_task_list_state, settings, settings_selection,
                           panicked, exited, disk, should_quit, views>>
            /\ NoSignal
       ELSE UNCHANGED <<appvars, clock, panicked, exited, disk, should_quit, views>> /\ NoSignal

\* Mutant: the completion date is kept when the task is reopened.
toggled_keep_date(t, now) ==
    [t EXCEPT !.completed = ~t.completed,
              !.completion_date = IF ~t.completed THEN Some(now) ELSE t.completion_date]

\* App::complete_active_task, the task after the flip
toggled(t, now) ==
    [t EXCEPT !.completed = ~t.completed,
              !.completion_date = IF ~t.completed THEN Some(now) ELSE None]

\* Mutant: completing the active task leaves the timer as it is.
complete_active_task_no_reset ==
    /\ Alive
    /\ IF is_some(active_task_index) /\ in_range(unwrap(active_task_index), tasks)
       THEN LET i == unwrap(active_task_index)
                t == toggled(at(tasks, i), clock)
            IN  /\ tasks' = [tasks EXCEPT ![i + 1] = t]
                /\ UNCHANGED <<mode, state, time_remaining, pomodoros_completed_total,
                               active_task_index, completed_task_list_state, settings,
                               settings_selection, clock, panicked, exited, disk, should_quit, views>>
                /\ NoSignal
       ELSE UNCHANGED <<appvars, clock, panicked, exited, disk, should_quit, views>> /\ NoSignal

\* App::complete_active_task
complete_active_task ==
    /\ Alive
    /\ IF is_some(active_task_index) /\ in_range(unwrap(active_task_index), tasks)
       THEN LET i == unwrap(active_task_index)
                t == toggled(at(tasks, i), clock)
            IN  /\ tasks' = [tasks EXCEPT ![i + 1] = t]
                /\ state' = IF t.completed THEN "Paused" ELSE state
                /\ time_remaining' = IF t.completed THEN duration(mode, settings)
                                     ELSE time_remaining
                /\ UNCHANGED <<mode, pomodoros_completed_total, active_task_index,
                               completed_task_list_state, settings, settings_selection,
                               clock, panicked, exited, disk, should_quit, views>>
                /\ NoSignal
       ELSE UNCHANGED <<appvars, clock, panicked, exited, disk, should_quit, views>> /\ NoSignal

\* Mutant: the selection steps to the next list index, completed or not.
next_active_plain(ts, idx) ==
    LET u == uncompleted_tasks_indices(ts)
        current_selection == IF is_some(idx) THEN unwrap(idx) ELSE 0
    IN  IF u = << >> THEN None ELSE Some((current_selection + 1) % Len(ts))

\* App::next_task, the new selection
next_active(ts, idx) ==
    LET u == uncompleted_tasks_indices(ts)
        current_selection == IF is_some(idx) THEN unwrap(idx) ELSE 0
        pos == position(u, current_selection)
        next_index_in_uncompleted ==
            IF is_some(pos) THEN (unwrap(pos) + 1) % Len(u) ELSE 0
    IN  IF u = << >> THEN None ELSE Some(u[next_index_in_uncompleted + 1])

\* Mutant: with no uncompleted task the selection falls back to the first task.
previous_active_first(ts, idx) ==
    LET u == uncompleted_tasks_indices(ts)
        current_selection == IF is_some(idx) THEN unwrap(idx) ELSE 0
        pos == position(u, current_selection)
        current_pos == IF is_some(pos) THEN unwrap(pos) ELSE 0
        next_index_in_uncompleted ==
            IF current_pos = 0 THEN Len(u) - 1 ELSE current_pos - 1
    IN  IF u = << >> THEN Some(0) ELSE Some(u[next_index_in_uncompleted + 1])

\* App::previous_task, the new selection
previous_active(ts, idx) ==
    LET u == uncompleted_tasks_indices(ts)
        current_selection == IF is_some(idx) THEN unwrap(idx) ELSE 0
        pos == position(u, current_selection)
        current_pos == IF is_some(pos) THEN unwrap(pos) ELSE 0
        next_index_in_uncompleted ==
            IF current_pos = 0 THEN Len(u) - 1 ELSE current_pos - 1
    IN  IF u = << >> THEN None ELSE Some(u[next_index_in_uncompleted + 1])

\* App::next_task
next_task ==
    /\ Alive
    /\ active_task_index' = next_active(tasks, active_task_index)
    /\ UNCHANGED <<mode, state, time_remaining, pomodoros_completed_total, tasks,
                   completed_task_list_state, settings, settings_selection,
                   clock, panicked, exited, disk, should_quit, views>>
    /\ NoSignal

\* App::previous_task
previous_task ==
    /\ Alive
    /\ active_task_index' = previous_active(tasks, active_task_index)
    /\ UNCHANGED <<mode, state, time_remaining, pomodoros_completed_total, tasks,
                   completed_task_list_state, settings, settings_selection,
                   clock, panicked, exited, disk, should_quit, views>>
    /\ NoSignal

\* App::move_active_task_up
move_active_task_up ==
    /\ Alive
    /\ IF is_some(active_task_index) /\ unwrap(active_task_index) > 0
       THEN LET index == unwrap(active_task_index)
            IN  IF ~in_range(index, tasks)
                THEN Panic                 \* Vec::swap out of bounds
                ELSE /\ tasks' = swap(tasks, index, index - 1)
                     /\ active_task_index' = Some(index - 1)
                     /\ UNCHANGED <<mode, state, time_remaining,
                                    pomodoros_completed_total,
                                    completed_task_list_state, settings,
                                    settings_selection, clock, panicked, exited, disk, should_quit, views>>
                     /\ NoSignal
       ELSE UNCHANGED <<appvars, clock, panicked, exited, disk, should_quit, views>> /\ NoSignal

\* App::move_active_task_down.  On an empty list tasks.len() - 1 underflows:
\* a panic in a debug build; a release build wraps it to usize::MAX and
\* panics in Vec::swap.
move_active_task_down ==
    /\ Alive
    /\ IF is_some(active_task_index)
       THEN LET index == unwrap(active_task_index)
            IN  IF Len(tasks) = 0
                THEN Panic
                ELSE IF index < Len(tasks) - 1
                     THEN /\ tasks' = swap(tasks, index, index + 1)
                          /\ active_task_index' = Some(index + 1)
                          /\ UNCHANGED <<mode, state, time_remaining,
                                         pomodoros_completed_total,
                                         completed_task_list_state, settings,
                                         settings_selection, clock, panicked, exited, disk, should_quit, views>>
                          /\ NoSignal
                     ELSE UNCHANGED <<appvars, clock, panicked, exited, disk, should_quit, views>> /\ NoSignal
       ELSE UNCHANGED <<appvars, clock, panicked, exited, disk, should_quit, views>> /\ NoSignal

\* tasks.iter().filter(|t| t.completed).count()
completed_count(ts) == Len(completed_indices(ts))

\* Mutant: the cursor steps on without wrapping at the end of the list.
next_completed_task_nowrap ==
    /\ Alive
    /\ LET n == completed_count(tasks)
       IN  completed_task_list_state' =
              IF n = 0 THEN completed_task_list_state
              ELSE IF is_some(completed_task_list_state)
                   THEN Some(unwrap(completed_task_list_state) + 1)
                   ELSE Some(0)
    /\ UNCHANGED <<mode, state, time_remaining, pomodoros_completed_total, tasks,
                   active_task_index, settings, settings_selection, clock, panicked,
                   exited, disk, should_quit, views>>
    /\ NoSignal

\* App::next_completed_task
next_completed_task ==
    /\ Alive
    /\ LET n == completed_count(tasks)
       IN  completed_task_list_state' =
              IF n = 0 THEN completed_task_list_state
              ELSE IF is_some(completed_task_list_state)
                   THEN Some((unwrap(completed_task_list_state) + 1) % n)
                   ELSE Some(0)
    /\ UNCHANGED <<mode, state, time_remaining, pomodoros_completed_total, tasks,
                   active_task_index, settings, settings_selection, clock, panicked, exited, disk, should_quit, views>>
    /\ NoSignal

\* App::previous_completed_task
previous_completed_task ==
    /\ Alive
    /\ LET n == completed_count(tasks)
       IN  completed_task_list_state' =
              IF n = 0 THEN completed_task_list_state
              ELSE IF is_some(completed_task_list_state)
                   THEN IF unwrap(completed_task_list_state) = 0
                        THEN Some(n - 1)
                        ELSE Some(unwrap(completed_task_list_state) - 1)
                   ELSE Some(0)
    /\ UNCHANGED <<mode, state, time_remaining, pomodoros_completed_total, tasks,
                   active_task_index, settings, settings_selection, clock, panicked, exited, disk, should_quit, views>>
    /\ NoSignal

\* Mutant: the active index is never shifted.
active_after_delete_fixed(idx, d) == idx

\* App::delete_selected_completed_task, the active index after task d is removed
active_after_delete(idx, d) ==
    IF is_some(idx) /\ unwrap(idx) > d THEN Some(unwrap(idx) - 1) ELSE idx

\* App::delete_selected_completed_task
delete_selected_completed_task ==
    /\ Alive
    /\ IF /\ is_some(completed_task_list_state)
          /\ unwrap(completed_task_list_state) < completed_count(tasks)
       THEN LET task_index_to_delete ==
                    completed_indices(tasks)[unwrap(completed_task_list_state) + 1]
            IN  /\ tasks' = remove(tasks, task_index_to_delete)
                /\ active_task_index' =
                       active_after_delete(active_task_index, task_index_to_delete)
                /\ completed_task_list_state' = None
                /\ UNCHANGED <<mode, state, time_remaining, pomodoros_completed_total,
                               settings, settings_selection, clock, panicked, exited, disk, should_quit, views>>
                /\ NoSignal
       ELSE UNCHANGED <<appvars, clock, panicked, exited, disk, should_quit, views>> /\ NoSignal

-----------------------------------------------------------------------------
(* Settings *)

\* App::next_setting
next_setting ==
    /\ Alive
    /\ settings_selection' = (settings_selection + 1) % 5
    /\ UNCHANGED <<mode, state, time_remaining, pomodoros_completed_total, tasks,
                   active_task_index, completed_task_list_state, settings,
                   clock, panicked, exited, disk, should_quit, views>>
    /\ NoSignal

\* App::previous_setting
previous_setting ==
    /\ Alive
    /\ settings_selection' = IF settings_selection > 0 THEN settings_selection - 1 ELSE 4
    /\ UNCHANGED <<mode, state, time_remaining, pomodoros_completed_total, tasks,
                   active_task_index, completed_task_list_state, settings,
                   clock, panicked, exited, disk, should_quit, views>>
    /\ NoSignal

\* i64::max
max(a, b) == IF a >= b THEN a ELSE b

\* Mutant: the duration goes down below one minute.
stepped_nofloor(d, increase) ==
    ((d \div SecsPerMin) + (IF increase THEN 1 ELSE -1)) * SecsPerMin

\* App::modify_setting, one duration: whole minutes, one up or down, floor 1
stepped(d, increase) ==
    max((d \div SecsPerMin) + (IF increase THEN 1 ELSE -1), 1) * SecsPerMin

\* App::modify_setting, the settings after the match on settings_selection
modified(s, sel, increase) ==
    CASE sel = 0 -> [s EXCEPT !.pomodoro_duration = stepped(@, increase)]
      [] sel = 1 -> [s EXCEPT !.short_break_duration = stepped(@, increase)]
      [] sel = 2 -> [s EXCEPT !.long_break_duration = stepped(@, increase)]
      [] OTHER -> s        \* 3: the theme, 4: desktop_notifications

\* Mutant: the timer is reset whether it is Paused or Running.
modify_setting_reset(increase) ==
    /\ Alive
    /\ settings' = modified(settings, settings_selection, increase)
    /\ state' = "Paused"
    /\ time_remaining' = duration(mode, settings')
    /\ UNCHANGED <<mode, pomodoros_completed_total, tasks, active_task_index,
                   completed_task_list_state, settings_selection, clock, panicked,
                   exited, disk, should_quit, views>>
    /\ NoSignal

\* App::modify_setting
modify_setting(increase) ==
    /\ Alive
    /\ settings' = modified(settings, settings_selection, increase)
    /\ time_remaining' = IF state = "Paused" THEN duration(mode, settings')
                         ELSE time_remaining
    /\ UNCHANGED <<mode, state, pomodoros_completed_total, tasks, active_task_index,
                   completed_task_list_state, settings_selection, clock, panicked, exited, disk, should_quit, views>>
    /\ NoSignal

-----------------------------------------------------------------------------
(* Persistence: the state file between two runs *)

\* Serialize for App: every field not marked #[serde(skip)]
to_snapshot ==
    [mode |-> mode, state |-> state, time_remaining |-> time_remaining,
     pomodoros_completed_total |-> pomodoros_completed_total, tasks |-> tasks,
     active_task_index |-> active_task_index,
     completed_task_list_state |-> completed_task_list_state,
     settings_selection |-> settings_selection,
     current_view |-> current_view]

\* App::default, the serialized fields
default_snapshot ==
    [mode |-> "Pomodoro", state |-> "Paused", time_remaining |-> 25 * SecsPerMin,
     pomodoros_completed_total |-> 0, tasks |-> << >>,
     active_task_index |-> None, completed_task_list_state |-> None,
     settings_selection |-> 0, current_view |-> "TaskList"]

\* Mutant: active_task_index is not read back from the file.
loaded_skip_active(d, s) ==
    LET a == IF is_some(d) THEN unwrap(d) ELSE default_snapshot
    IN  [a EXCEPT !.time_remaining = duration(a.mode, s),
                  !.active_task_index = None]

\* App::load_with_settings, the fields of the App it returns: the file if
\* there is one, else the default; time_remaining from the settings handed over
loaded(d, s) ==
    LET a == IF is_some(d) THEN unwrap(d) ELSE default_snapshot
    IN  [a EXCEPT !.time_remaining = duration(a.mode, s)]

\* run_app takes a key from the terminal: one key at most in an iteration of
\* the loop, and none in the iteration that set should_quit
Polling == Alive /\ ~should_quit

\* The key q in the Normal input mode, in any view
request_quit ==
    /\ Polling
    /\ should_quit' = TRUE
    /\ UNCHANGED <<appvars, clock, panicked, exited, disk, views>>
    /\ NoSignal

\* Mutant: the state file is written in any iteration of the loop.
save_unasked ==
    /\ Alive
    /\ disk' = Some(to_snapshot)
    /\ exited' = TRUE
    /\ UNCHANGED <<appvars, clock, panicked, should_quit, views>>
    /\ NoSignal

\* run_app on should_quit: App::save writes the file and run_app returns
save ==
    /\ Alive
    /\ should_quit
    /\ disk' = Some(to_snapshot)
    /\ exited' = TRUE
    /\ UNCHANGED <<appvars, clock, panicked, should_quit, views>>
    /\ NoSignal

\* main, the next run: App::load_with_settings(settings)
load_with_settings(s) ==
    /\ exited
    /\ LET a == loaded(disk, s)
       IN  /\ mode' = a.mode
           /\ state' = a.state
           /\ time_remaining' = a.time_remaining
           /\ pomodoros_completed_total' = a.pomodoros_completed_total
           /\ tasks' = a.tasks
           /\ active_task_index' = a.active_task_index
           /\ completed_task_list_state' = a.completed_task_list_state
           /\ settings_selection' = a.settings_selection
           /\ current_view' = a.current_view
    /\ settings' = s
    /\ exited' = FALSE
    /\ should_quit' = FALSE                \* #[serde(skip)]: bool::default()
    /\ previous_view' = "TaskList"         \* #[serde(skip)]: View::default()
    /\ UNCHANGED <<clock, panicked, disk>>
    /\ NoSignal

\* Settings::load and the CLI overrides: the settings main() can hand over
ConfiguredSettings ==
    {[pomodoro_duration |-> p * SecsPerMin,
      short_break_duration |-> sb * SecsPerMin,
      long_break_duration |-> lb * SecsPerMin] :
        p \in 1..MaxMins, sb \in 1..MaxMins, lb \in 1..MaxMins}

\* Settings::load and the CLI overrides as main() takes them: whole minutes,
\* Duration::from_secs(minutes * 60), zero included
StartupSettings ==
    {[pomodoro_duration |-> p * SecsPerMin,
      short_break_duration |-> sb * SecsPerMin,
      long_break_duration |-> lb * SecsPerMin] :
        p \in 0..MaxMins, sb \in 0..MaxMins, lb \in 0..MaxMins}

\* Initial state of a first run: App::load_with_settings(settings) without a
\* state file, under any settings main() can hand over
InitStartup ==
    /\ settings \in StartupSettings
    /\ mode = "Pomodoro"
    /\ state = "Paused"
    /\ time_remaining = duration("Pomodoro", settings)
    /\ pomodoros_completed_total = 0
    /\ tasks = << >>
    /\ active_task_index = None
    /\ completed_task_list_state = None
    /\ settings_selection = 0
    /\ finished_mode = "None"
    /\ clock = 0
    /\ panicked = FALSE
    /\ exited = FALSE
    /\ disk = None
    /\ should_quit = FALSE
    /\ current_view = "TaskList"
    /\ previous_view = "TaskList"

-----------------------------------------------------------------------------
(* Views: the keys of the Normal input mode that change the view *)

\* The view changes, nothing else does
only_views == UNCHANGED <<appvars, clock, panicked, exited, disk, should_quit>> /\ NoSignal

\* handle_key_event: the key o, in any view
open_settings ==
    /\ Polling
    /\ previous_view' = current_view
    /\ current_view' = "Settings"
    /\ only_views

\* handle_timer_input: Tab
timer_tab ==
    /\ Polling
    /\ current_view = "Timer"
    /\ previous_view' = current_view
    /\ current_view' = "TaskList"
    /\ only_views

\* handle_tasklist_input: Tab
tasklist_tab ==
    /\ Polling
    /\ current_view = "TaskList"
    /\ previous_view' = current_view
    /\ current_view' = "Statistics"
    /\ only_views

\* handle_tasklist_input: Space
tasklist_space ==
    /\ Polling
    /\ current_view = "TaskList"
    /\ IF is_some(active_task_index)
       THEN /\ previous_view' = current_view
            /\ current_view' = "Timer"
       ELSE UNCHANGED views
    /\ only_views

\* handle_stats_input: Tab
stats_tab ==
    /\ Polling
    /\ current_view = "Statistics"
    /\ previous_view' = current_view
    /\ current_view' = "Timer"
    /\ only_views

\* handle_stats_input: Enter
stats_enter ==
    /\ Polling
    /\ current_view = "Statistics"
    /\ IF is_some(completed_task_list_state)
       THEN /\ previous_view' = current_view
            /\ current_view' = "TaskDetails"
       ELSE UNCHANGED views
    /\ only_views

\* handle_settings_input: Tab
settings_tab ==
    /\ Polling
    /\ current_view = "Settings"
    /\ current_view' = previous_view
    /\ UNCHANGED previous_view
    /\ only_views

\* handle_task_details_input: Esc, Enter
task_details_back ==
    /\ Polling
    /\ current_view = "TaskDetails"
    /\ current_view' = previous_view
    /\ UNCHANGED previous_view
    /\ only_views

-----------------------------------------------------------------------------
(* The driver applies one operation at a time.  The guards in front of an *)
(* operation keep the counters of a run within the bounds of the model.    *)

\* tick(elapsed) keeps time_spent and the session counter within the bounds
TickWithin(elapsed, sessions) ==
    /\ (state = "Running" /\ time_remaining >= elapsed /\ ActiveUncompleted)
       => at(tasks, unwrap(active_task_index)).time_spent + elapsed
             <= MaxSpentMins * SecsPerMin
    /\ (state = "Running" /\ time_remaining < elapsed /\ mode = "Pomodoro")
       => pomodoros_completed_total < sessions

\* tick(elapsed) keeps time_spent and the session counter within the bounds
\* of the timer left alone
LiveTickWithin(elapsed) ==
    /\ (state = "Running" /\ time_remaining >= elapsed /\ ActiveUncompleted)
       => at(tasks, unwrap(active_task_index)).time_spent + elapsed
             <= MaxLiveSpentMins * SecsPerMin
    /\ (state = "Running" /\ time_remaining < elapsed /\ mode = "Pomodoro")
       => pomodoros_completed_total < MaxLiveSessions

\* submit_task(input) keeps the list and the run within the bounds
SubmitWithin(input, len, created) ==
    ~is_empty(input) => (Len(tasks) < len /\ clock < created)

\* modify_setting(increase) keeps the durations within the bound
ModifyWithin(increase) ==
    \A m \in Modes :
        duration(m, modified(settings, settings_selection, increase))
            <= MaxMins * SecsPerMin

Next ==
    \/ \E elapsed \in TickElapsed : TickWithin(elapsed, MaxSessions) /\ tick(elapsed)
    \/ toggle_timer
    \/ reset_timer
    \/ \E m \in Modes : set_mode(m)
    \/ \E input \in {"", "a"} : SubmitWithin(input, MaxTasks, MaxCreated) /\ submit_task(input)
    \/ complete_active_task
    \/ next_task
    \/ previous_task
    \/ move_active_task_up
    \/ move_active_task_down
    \/ next_completed_task
    \/ previous_completed_task
    \/ delete_selected_completed_task
    \/ next_setting
    \/ previous_setting
    \/ \E increase \in BOOLEAN : ModifyWithin(increase) /\ modify_setting(increase)

Spec == Init /\ [][Next]_vars

\* The timer engine with one task to run it on.
NextTimer ==
    \/ \E elapsed \in TickElapsed : TickWithin(elapsed, MaxCycleSessions) /\ tick(elapsed)
    \/ toggle_timer
    \/ reset_timer
    \/ \E m \in Modes : set_mode(m)
    \/ SubmitWithin("a", 1, MaxCreated) /\ submit_task("a")
    \/ complete_active_task

SpecTimer == Init /\ [][NextTimer]_vars

\* The settings view over the timer engine with one task.
NextSettings ==
    \/ \E elapsed \in TickElapsed : TickWithin(elapsed, MaxSessions) /\ tick(elapsed)
    \/ toggle_timer
    \/ \E m \in Modes : set_mode(m)
    \/ SubmitWithin("a", 1, MaxCreated) /\ submit_task("a")
    \/ next_setting
    \/ previous_setting
    \/ \E increase \in BOOLEAN : ModifyWithin(increase) /\ modify_setting(increase)

SpecSettings == Init /\ [][NextSettings]_vars

\* The timer engine left to cycle: no manual change of mode.
NextAuto ==
    \/ \E elapsed \in TickElapsed : TickWithin(elapsed, MaxCycleSessions) /\ tick(elapsed)
    \/ toggle_timer
    \/ reset_timer
    \/ SubmitWithin("a", 1, MaxCreated) /\ submit_task("a")
    \/ complete_active_task

SpecAuto == Init /\ [][NextAuto]_vars

\* Runs of the program, one after the other, over one state file.
NextPersist ==
    \/ \E elapsed \in TickElapsed : TickWithin(elapsed, MaxPersistSessions) /\ tick(elapsed)
    \/ Polling /\ toggle_timer
    \/ Polling /\ SubmitWithin("a", MaxTasks, MaxCreated) /\ submit_task("a")
    \/ Polling /\ complete_active_task
    \/ Polling /\ next_completed_task
    \/ request_quit
    \/ save
    \/ \E s \in ConfiguredSettings : load_with_settings(s)

SpecPersist == Init /\ [][NextPersist]_vars

\* One task and the quit key, run after run.
NextQuit ==
    \/ \E elapsed \in TickElapsed : TickWithin(elapsed, MaxPersistSessions) /\ tick(elapsed)
    \/ Polling /\ toggle_timer
    \/ Polling /\ SubmitWithin("a", 1, MaxCreated) /\ submit_task("a")
    \/ Polling /\ complete_active_task
    \/ request_quit
    \/ save
    \/ \E s \in ConfiguredSettings : load_with_settings(s)

\* Every iteration of the loop ends in the should_quit check, and nothing
\* between the key and the check can block.
SpecQuit == Init /\ [][NextQuit]_vars /\ WF_vars(save)

\* What handle_editing_input can leave in current_input when Enter is pressed
TaskInputs == {"", " ", "a"}

\* The task list on its own: the keys of the task list and statistics views.
NextTasks ==
    \/ \E input \in TaskInputs :
          SubmitWithin(input, MaxListTasks, MaxListCreated) /\ submit_task(input)
    \/ complete_active_task
    \/ next_task
    \/ previous_task
    \/ move_active_task_up
    \/ move_active_task_down
    \/ next_completed_task
    \/ previous_completed_task
    \/ delete_selected_completed_task

SpecTasks == InitDefault /\ [][NextTasks]_vars

\* Mutant: the tick block never takes the branch that ends the session.
ticking_short ==
    \E elapsed \in TickElapsed :
        LiveTickWithin(elapsed) /\ tick(elapsed) /\ time_remaining >= elapsed

\* run_app, the tick block of one iteration of the loop
ticking == \E elapsed \in TickElapsed : LiveTickWithin(elapsed) /\ tick(elapsed)

\* The timer over one task, started or stopped by the user and otherwise
\* left to the ticks of the loop.
NextLive ==
    \/ ticking
    \/ toggle_timer
    \/ SubmitWithin("a", 1, MaxCreated) /\ submit_task("a")

\* event::poll returns after tick_rate at the latest, so the loop keeps
\* reaching its tick block.
SpecLive == Init /\ [][NextLive]_vars /\ WF_vars(ticking)

\* The settings view over the timer engine, from any settings main() accepts.
SpecStartup == InitStartup /\ [][NextSettings]_vars

\* The keys of the Normal input mode that change the view, and the task keys
\* that open the way to the Timer and TaskDetails views.
NextViews ==
    \/ open_settings
    \/ timer_tab
    \/ tasklist_tab
    \/ tasklist_space
    \/ stats_tab
    \/ stats_enter
    \/ settings_tab
    \/ task_details_back
    \/ current_view = "TaskList" /\ SubmitWithin("a", MaxTasks, MaxCreated) /\ submit_task("a")
    \/ current_view = "TaskList" /\ complete_active_task
    \/ current_view = "Statistics" /\ next_completed_task

SpecViews == InitDefault /\ [][NextViews]_vars

TypeOK ==
    /\ mode \in Modes
    /\ state \in {"Paused", "Running"}
    /\ time_remaining \in 0..max(MaxMins, 25) * SecsPerMin
    /\ pomodoros_completed_total >= 0
    /\ Len(tasks) <= MaxListTasks + 1
    /\ settings_selection \in 0..4
    /\ finished_mode \in Modes \cup {"None"}
    /\ panicked \in BOOLEAN
    /\ exited \in BOOLEAN
    /\ should_quit \in BOOLEAN
    /\ current_view \in Views
    /\ previous_view \in Views

-----------------------------------------------------------------------------
(* Claims *)

\* time_spent of every task, in list order
spent(ts) == [k \in 1..Len(ts) |-> ts[k].time_spent]

\* The other timer state
flipped(st) == IF st = "Paused" THEN "Running" ELSE "Paused"

\* C1: after any sequence of driver operations from the default state,
\* active_task_index is None or the index of a task that is not completed.
C1_ActiveIsUncompleted ==
    active_task_index = None \/ ActiveUncompleted

\* C2: no driver operation fails fatally in any reachable state: each one
\* applies its effect or is a silent no-op, none indexes tasks out of range
\* or underflows tasks.len() - 1.
C2_NoFatalFailure == ~panicked

\* C3: the tick is applied to a Running Pomodoro with an uncompleted active task
C3_Case(e) ==
    /\ state = "Running"
    /\ mode = "Pomodoro"
    /\ ActiveUncompleted
    /\ tick(e)

\* C3: the session has finished within the tick
C3_Finished ==
    /\ mode' = IF (pomodoros_completed_total + 1) % 4 = 0
               THEN "LongBreak" ELSE "ShortBreak"
    /\ pomodoros_completed_total' = pomodoros_completed_total + 1
    /\ at(tasks', unwrap(active_task_index)).pomodoros
          = at(tasks, unwrap(active_task_index)).pomodoros + 1
    /\ state' = "Running"

\* C3 as stated: a tick whose elapsed time equals the whole time_remaining,
\* on a Running Pomodoro with an uncompleted active task, finishes the session
\* within that tick: break mode (long on a multiple of 4), counter + 1, the
\* task's pomodoros + 1, state Running.
C3_FinishesOnExactTick ==
    [][\A e \in TickElapsed :
          (C3_Case(e) /\ e = time_remaining) => C3_Finished]_vars

\* C3 as amended: a tick whose elapsed time exceeds time_remaining finishes the
\* session within that tick (break mode, long on a multiple of 4; counter + 1;
\* the task's pomodoros + 1; state Running); a tick whose elapsed time equals
\* time_remaining leaves time_remaining = 0 and mode, counter and state as they
\* were.
C3_FinishesOnOverrun ==
    [][\A e \in TickElapsed :
          /\ (C3_Case(e) /\ e > time_remaining)
                => (C3_Finished /\ finished_mode' = "Pomodoro")
          /\ (C3_Case(e) /\ e = time_remaining)
                => /\ time_remaining' = 0
                   /\ UNCHANGED <<mode, state, pomodoros_completed_total>>
                   /\ finished_mode' = "None"]_vars

\* C3: the fourth Pomodoro has just finished into a long break, timer Running.
C3_Witness ==
    /\ finished_mode = "Pomodoro"
    /\ mode = "LongBreak"
    /\ state = "Running"
    /\ pomodoros_completed_total = 4
    /\ at(tasks, unwrap(active_task_index)).pomodoros = 4

\* C4: every tick(elapsed) on a Running timer with an active task adds exactly
\* elapsed to that task's time_spent, also on the tick that crosses the session
\* boundary; no other task's time_spent changes, and none changes while Paused.
C4_FullDelta ==
    [][\A e \in TickElapsed :
          tick(e) =>
             IF /\ state = "Running"
                /\ is_some(active_task_index)
                /\ in_range(unwrap(active_task_index), tasks)
             THEN spent(tasks') =
                     [spent(tasks) EXCEPT ![unwrap(active_task_index) + 1] = @ + e]
             ELSE spent(tasks') = spent(tasks)]_vars

\* C5: from a fresh state and with no manual change of mode, the first three
\* Pomodoro completions lead to ShortBreak and the fourth to LongBreak, every
\* break completion leads back to Pomodoro, and so the timer is in LongBreak
\* only at a positive multiple of 4 and in ShortBreak only off one.
C5_CycleLaw ==
    /\ (finished_mode = "Pomodoro" /\ pomodoros_completed_total \in 1..3)
          => mode = "ShortBreak"
    /\ (finished_mode = "Pomodoro" /\ pomodoros_completed_total = 4)
          => mode = "LongBreak"
    /\ finished_mode \in {"ShortBreak", "LongBreak"} => mode = "Pomodoro"
    /\ mode = "LongBreak"
          => (pomodoros_completed_total > 0 /\ pomodoros_completed_total % 4 = 0)
    /\ mode = "ShortBreak" => pomodoros_completed_total % 4 # 0

\* C5: the long break after the fourth Pomodoro has been reached
C5_Witness ==
    /\ mode = "LongBreak"
    /\ pomodoros_completed_total = 4
    /\ finished_mode = "Pomodoro"

\* C6: next_mode, for every value of the counter: from Pomodoro the counter is
\* incremented first and the new mode is LongBreak exactly when the incremented
\* counter is divisible by 4, else ShortBreak; from a break the new mode is
\* Pomodoro and the counter is kept; the value returned is the mode that ended.
C6_TransitionFunction ==
    [][finished_mode' # "None" =>
          /\ finished_mode' = mode
          /\ mode = "Pomodoro" =>
                /\ pomodoros_completed_total' = pomodoros_completed_total + 1
                /\ mode' = "LongBreak" <=> pomodoros_completed_total' % 4 = 0
                /\ mode' = "ShortBreak" <=> pomodoros_completed_total' % 4 # 0
          /\ mode # "Pomodoro" =>
                /\ pomodoros_completed_total' = pomodoros_completed_total
                /\ mode' = "Pomodoro"]_vars

\* C6: the eighth Pomodoro has finished into the second long break
C6_Witness ==
    /\ finished_mode = "Pomodoro"
    /\ pomodoros_completed_total = 8
    /\ mode = "LongBreak"

\* C7: pomodoros_completed_total changes only when a Pomodoro session
\* finishes, and then by exactly +1; the end of a break and every other
\* operation leave it unchanged, so it never decreases.
C7_CounterFrame ==
    [][pomodoros_completed_total' # pomodoros_completed_total =>
          /\ pomodoros_completed_total' = pomodoros_completed_total + 1
          /\ mode = "Pomodoro"
          /\ state = "Running"
          /\ finished_mode' = "Pomodoro"]_vars

\* C7: a break has finished and the counter kept the Pomodoros counted so far
C7_Witness ==
    /\ finished_mode = "ShortBreak"
    /\ pomodoros_completed_total = 1

\* C8: right after next_mode, time_remaining is the configured duration of the
\* new mode, and state is Running iff active_task_index refers to an existing
\* uncompleted task (else Paused).
C8_AfterNextMode ==
    finished_mode # "None" =>
        /\ time_remaining = duration(mode, settings)
        /\ state = "Running" <=> ActiveUncompleted
        /\ state = "Paused" <=> ~ActiveUncompleted

\* C8: next_mode has run over a list of two tasks and the timer continued
C8_Witness ==
    /\ finished_mode = "Pomodoro"
    /\ state = "Running"
    /\ Len(tasks) = 2
    /\ time_remaining = duration(mode, settings)

\* C9: toggle_timer flips state when active_task_index refers to an
\* uncompleted task, and otherwise (no active task, or the active task is
\* completed) changes nothing at all and raises no error.
C9_ToggleOrNoop ==
    [][toggle_timer =>
          IF ActiveUncompleted
          THEN /\ state' = flipped(state)
               /\ UNCHANGED <<mode, time_remaining, pomodoros_completed_total, tasks,
                              active_task_index, completed_task_list_state,
                              settings, settings_selection, panicked>>
          ELSE UNCHANGED <<appvars, panicked>>]_vars

\* C10: a tick applied while the timer is Paused leaves mode, time_remaining,
\* the session counter, every task and both selection indices unchanged.
C10_PausedTickNoop ==
    [][\A e \in TickElapsed :
          (state = "Paused" /\ tick(e)) => UNCHANGED appvars]_vars

\* C10: a paused timer part-way through a session, time already credited
C10_Witness ==
    /\ state = "Paused"
    /\ time_remaining < duration(mode, settings)
    /\ \E k \in 1..Len(tasks) : tasks[k].time_spent > 0

\* C11: time_remaining is never negative, and a tick whose elapsed time
\* exceeds time_remaining does not subtract: the session is ended and
\* time_remaining is set from the new mode.
C11_NeverNegative ==
    /\ [](time_remaining >= 0)
    /\ [][\A e \in TickElapsed :
             (state = "Running" /\ tick(e) /\ e > time_remaining)
                => /\ finished_mode' = mode
                   /\ mode' # mode
                   /\ time_remaining' = duration(mode', settings)]_vars

\* C11: a tick has brought a running break to exactly zero
C11_Witness ==
    /\ time_remaining = 0
    /\ state = "Running"
    /\ mode = "ShortBreak"

\* C12: reset_timer sets state = Paused and time_remaining = the configured
\* duration of the current mode and changes nothing else; the state it leaves
\* is one a second reset_timer leaves as it is.
C12_ResetIdempotent ==
    [][reset_timer =>
          /\ state' = "Paused"
          /\ time_remaining' = duration(mode, settings)
          /\ UNCHANGED <<mode, pomodoros_completed_total, tasks, active_task_index,
                         completed_task_list_state, settings, settings_selection>>
          /\ time_remaining' = duration(mode', settings')]_vars

\* C12: a break after the first Pomodoro, reset to its full duration
C12_Witness ==
    /\ state = "Paused"
    /\ mode = "ShortBreak"
    /\ pomodoros_completed_total = 1
    /\ time_remaining = duration(mode, settings)
    /\ finished_mode = "None"

\* The step from one run of the program to the next: load_with_settings
Restart == exited /\ ~exited'

\* C13: save followed by load_with_settings under the same settings brings
\* back the saved state, time_remaining included: nothing but the input
\* buffer and the input mode is lost.
C13_OnlyInputLost ==
    [][(Restart /\ settings' = settings) => UNCHANGED appvars]_vars

\* C13: save followed by load_with_settings reproduces the task list (order
\* and every field), the session counter, the mode, active_task_index, the
\* completed-selection index and the settings selection of the saved state;
\* time_remaining is not brought back, it is the full duration of the mode
\* under the settings handed to load_with_settings.
C13_RoundTrip ==
    [][Restart =>
          /\ tasks' = tasks
          /\ pomodoros_completed_total' = pomodoros_completed_total
          /\ mode' = mode
          /\ active_task_index' = active_task_index
          /\ completed_task_list_state' = completed_task_list_state
          /\ settings_selection' = settings_selection
          /\ time_remaining' = duration(mode', settings')]_vars

\* C13: a second run over a saved list of two tasks, one of them completed,
\* after a quit in the middle of a countdown
C13_Witness ==
    /\ ~exited
    /\ is_some(disk)
    /\ unwrap(disk).tasks = tasks
    /\ unwrap(disk).time_remaining < time_remaining
    /\ Len(tasks) = 2
    /\ is_some(active_task_index)
    /\ is_some(completed_task_list_state)

\* C14: after load_with_settings the timer is Paused, whatever state the
\* snapshot holds.
C14_PausedAfterLoad ==
    [][Restart => state' = "Paused"]_vars

\* C17: complete_active_task turning the active task to completed leaves
\* state = Paused and time_remaining = the full duration of the current mode;
\* turning it back to uncompleted leaves mode, state and time_remaining alone.
C17_CompletionResetsTimer ==
    [][(complete_active_task /\ is_some(active_task_index)
           /\ in_range(unwrap(active_task_index), tasks)) =>
          IF ~at(tasks, unwrap(active_task_index)).completed
          THEN /\ at(tasks', unwrap(active_task_index)).completed
               /\ state' = "Paused"
               /\ time_remaining' = duration(mode, settings)
               /\ mode' = mode
          ELSE /\ ~at(tasks', unwrap(active_task_index)).completed
               /\ UNCHANGED <<mode, state, time_remaining>>]_vars

\* C17: the active task was completed after time had been spent on it
C17_Witness ==
    /\ is_some(active_task_index)
    /\ in_range(unwrap(active_task_index), tasks)
    /\ at(tasks, unwrap(active_task_index)).completed
    /\ at(tasks, unwrap(active_task_index)).time_spent > 0
    /\ state = "Paused"
    /\ time_remaining = duration(mode, settings)

\* A name that is empty or made of white space only
is_blank(input) == input \in {"", " "}

\* C15: submit_task with an empty or whitespace-only name adds no task and
\* leaves tasks and active_task_index unchanged.
C15_BlankRejected ==
    [][\A input \in TaskInputs :
          (is_blank(input) /\ submit_task(input))
             => UNCHANGED <<tasks, active_task_index>>]_vars

\* C16: submit_task with a name it accepts appends exactly one task at the
\* end of the list, with that name, completed = false, no Pomodoro, no time
\* spent and no completion date; active_task_index becomes 0 when the list
\* was empty and is unchanged otherwise.
C16_AppendsFreshTask ==
    [][\A input \in TaskInputs :
          (~is_empty(input) /\ submit_task(input)) =>
             /\ Len(tasks') = Len(tasks) + 1
             /\ SubSeq(tasks', 1, Len(tasks)) = tasks
             /\ tasks'[Len(tasks')].name = input
             /\ ~tasks'[Len(tasks')].completed
             /\ tasks'[Len(tasks')].pomodoros = 0
             /\ tasks'[Len(tasks')].time_spent = 0
             /\ tasks'[Len(tasks')].completion_date = None
             /\ active_task_index' =
                   IF tasks = << >> THEN Some(0) ELSE active_task_index]_vars

\* C16: three tasks were submitted, the selection still on the first
C16_Witness ==
    /\ Len(tasks) = 3
    /\ active_task_index = Some(0)
    /\ \A k \in 1..3 : tasks[k].name = "a" /\ ~tasks[k].completed
    /\ tasks[3].creation_date = 2

\* C18: in every reachable state a task has a completion date exactly when
\* it is completed.
C18_DateIffCompleted ==
    \A k \in 1..Len(tasks) : is_some(tasks[k].completion_date) <=> tasks[k].completed

\* C18: one task is completed and dated, another is open and undated
C18_Witness ==
    /\ \E k \in 1..Len(tasks) : tasks[k].completed /\ is_some(tasks[k].completion_date)
    /\ \E k \in 1..Len(tasks) : ~tasks[k].completed /\ tasks[k].completion_date = None

\* The indices of the uncompleted tasks
Open == {j \in 0..(Len(tasks) - 1) : ~at(tasks, j).completed}

\* The first and the last uncompleted task
first_open == CHOOSE j \in Open : \A k \in Open : j <= k
last_open == CHOOSE j \in Open : \A k \in Open : k <= j

\* The uncompleted task after i in list order, the first one after the last
open_after(i) ==
    IF \E j \in Open : j > i
    THEN CHOOSE j \in Open : j > i /\ \A k \in Open : k > i => j <= k
    ELSE first_open

\* The uncompleted task before i in list order, the last one before the first
open_before(i) ==
    IF \E j \in Open : j < i
    THEN CHOOSE j \in Open : j < i /\ \A k \in Open : k < i => k <= j
    ELSE last_open

\* C19: when the active task is uncompleted, next_task selects the next
\* uncompleted task in list order and previous_task the previous one, with
\* wraparound at either end, and neither lands on a completed task.
C19_CyclesThroughOpen ==
    [][/\ (ActiveUncompleted /\ next_task) =>
             /\ active_task_index' = Some(open_after(unwrap(active_task_index)))
             /\ ~at(tasks', unwrap(active_task_index')).completed
       /\ (ActiveUncompleted /\ previous_task) =>
             /\ active_task_index' = Some(open_before(unwrap(active_task_index)))
             /\ ~at(tasks', unwrap(active_task_index')).completed]_vars

\* C19: the selection is on the last of three tasks, past a completed one
C19_Witness ==
    /\ Len(tasks) = 3
    /\ ~tasks[1].completed
    /\ tasks[2].completed
    /\ ~tasks[3].completed
    /\ active_task_index = Some(2)

\* The selection is not one of the uncompleted tasks
SelectionNotOpen ==
    \/ active_task_index = None
    \/ unwrap(active_task_index) \notin Open

\* C20: when the selection is None or a completed task and an uncompleted
\* task exists, next_task and previous_task both select the first
\* uncompleted task.
C20_ResetsToFirstOpen ==
    [][(SelectionNotOpen /\ Open # {} /\ (next_task \/ previous_task))
          => active_task_index' = Some(first_open)]_vars

\* Everything of the App but active_task_index
but_active == <<mode, state, time_remaining, pomodoros_completed_total, tasks,
                completed_task_list_state, settings, settings_selection>>

\* C21: when no uncompleted task exists, the empty list included, next_task
\* and previous_task set active_task_index to None and change nothing else.
C21_NoneWhenNothingOpen ==
    [][(Open = {} /\ (next_task \/ previous_task))
          => active_task_index' = None /\ UNCHANGED but_active]_vars

\* C21: every task of the list is completed and the selection is gone
C21_Witness ==
    /\ tasks # << >>
    /\ Open = {}
    /\ active_task_index = None

\* There is an active task: the active index addresses a task of the list
HasActive ==
    is_some(active_task_index) /\ in_range(unwrap(active_task_index), tasks)

\* The list with the tasks at the 0-based indices i and j exchanged
exchanged(ts, i, j) == [ts EXCEPT ![i + 1] = ts[j + 1], ![j + 1] = ts[i + 1]]

\* Everything of the App but the task list and active_task_index
but_list == <<mode, state, time_remaining, pomodoros_completed_total,
              completed_task_list_state, settings, settings_selection>>

\* C22: move_active_task_up / move_active_task_down exchange the active task
\* with its neighbour and move active_task_index along with it; at the first
\* (resp. last) position, or with no active task, they change nothing; no
\* task is gained or lost and the other tasks stay where they are.
C22_MoveKeepsTask ==
    [][/\ move_active_task_up =>
             /\ ~panicked'
             /\ UNCHANGED but_list
             /\ IF HasActive /\ unwrap(active_task_index) > 0
                THEN LET i == unwrap(active_task_index)
                     IN  /\ tasks' = exchanged(tasks, i, i - 1)
                         /\ active_task_index' = Some(i - 1)
                ELSE UNCHANGED <<tasks, active_task_index>>
       /\ move_active_task_down =>
             /\ ~panicked'
             /\ UNCHANGED but_list
             /\ IF HasActive /\ unwrap(active_task_index) < Len(tasks) - 1
                THEN LET i == unwrap(active_task_index)
                     IN  /\ tasks' = exchanged(tasks, i, i + 1)
                         /\ active_task_index' = Some(i + 1)
                ELSE UNCHANGED <<tasks, active_task_index>>]_vars

\* The indices of the completed tasks
Done == {j \in 0..(Len(tasks) - 1) : at(tasks, j).completed}

\* The k-th completed task in list order, k counted from 0
kth_done(k) == CHOOSE j \in Done : Cardinality({i \in Done : i < j}) = k

\* The completed-selection cursor addresses a completed task
CursorValid ==
    /\ is_some(completed_task_list_state)
    /\ unwrap(completed_task_list_state) < Cardinality(Done)

\* The list without the task at the 0-based index d
without(ts, d) == SubSeq(ts, 1, d) \o SubSeq(ts, d + 2, Len(ts))

\* The tasks of a list, each known by its creation date
Ids(ts) == {ts[k].creation_date : k \in 1..Len(ts)}

\* C23: when active_task_index refers to an uncompleted task,
\* delete_selected_completed_task leaves it on the same task: one lower when
\* the deleted task preceded it in the list, unchanged when it followed.
C23_DeleteKeepsActive ==
    [][(delete_selected_completed_task /\ ActiveUncompleted) =>
          LET a == unwrap(active_task_index)
          IN  /\ is_some(active_task_index')
              /\ in_range(unwrap(active_task_index'), tasks')
              /\ at(tasks', unwrap(active_task_index')) = at(tasks, a)
              /\ unwrap(active_task_index') =
                    IF CursorValid /\ kth_done(unwrap(completed_task_list_state)) < a
                    THEN a - 1 ELSE a]_vars

\* C23: the first task created is gone and the selection is on the one
\* created after it, now first in the list
C23_Witness ==
    /\ 0 \notin Ids(tasks)
    /\ active_task_index = Some(0)
    /\ tasks # << >>
    /\ tasks[1].creation_date = 1
    /\ ~tasks[1].completed

\* C24: a task leaves the list only in delete_selected_completed_task with a
\* cursor k on a completed task; exactly the k-th completed task in list
\* order is removed and the cursor becomes None.  With no cursor, or a cursor
\* that addresses no completed task, the list is left as it is.
C24_DeleteOnlyCompleted ==
    [][/\ ~(Ids(tasks) \subseteq Ids(tasks')) =>
             /\ delete_selected_completed_task
             /\ CursorValid
       /\ (delete_selected_completed_task /\ CursorValid) =>
             /\ at(tasks, kth_done(unwrap(completed_task_list_state))).completed
             /\ tasks' = without(tasks, kth_done(unwrap(completed_task_list_state)))
             /\ completed_task_list_state' = None
       /\ (delete_selected_completed_task /\ ~CursorValid) =>
             UNCHANGED tasks]_vars

\* C24: a completed task has left a list that still holds an uncompleted
\* and a completed one
C24_Witness ==
    /\ \E c \in 0..(clock - 1) : c \notin Ids(tasks)
    /\ completed_task_list_state = None
    /\ Open # {}
    /\ Done # {}

\* C25: in every reachable state the completed-selection cursor is None or
\* less than the number of completed tasks.
C25_CursorInRange ==
    completed_task_list_state = None
        \/ unwrap(completed_task_list_state) < Cardinality(Done)

\* C26: with n > 0 completed tasks next_completed_task and
\* previous_completed_task leave the cursor within 0..n-1: one step up resp.
\* down modulo n, or 0 when it was None; with n = 0 the cursor is unchanged.
C26_CursorCycles ==
    [][LET n == Cardinality(Done)
           k == unwrap(completed_task_list_state)
       IN  /\ next_completed_task =>
                 IF n = 0 THEN UNCHANGED completed_task_list_state
                 ELSE /\ completed_task_list_state' =
                            IF is_some(completed_task_list_state)
                            THEN Some((k + 1) % n) ELSE Some(0)
                      /\ unwrap(completed_task_list_state') \in 0..(n - 1)
           /\ previous_completed_task =>
                 IF n = 0 THEN UNCHANGED completed_task_list_state
                 ELSE /\ completed_task_list_state' =
                            IF is_some(completed_task_list_state)
                            THEN Some((k + n - 1) % n) ELSE Some(0)
                      /\ unwrap(completed_task_list_state') \in 0..(n - 1)]_vars

\* C26: the cursor is on the last of three completed tasks
C26_Witness ==
    /\ Cardinality(Done) = 3
    /\ completed_task_list_state = Some(2)

\* The 1-based place in the list of the task created at c
place(ts, c) == CHOOSE k \in 1..Len(ts) : ts[k].creation_date = c

\* Two tasks that stay in the list stay in the same order
OrderKept ==
    \A c, d \in Ids(tasks) \cap Ids(tasks') :
        place(tasks, c) < place(tasks, d) => place(tasks', c) < place(tasks', d)

\* C30: the relative order of two tasks changes only in move_active_task_up
\* and move_active_task_down; a task that joins the list joins it at the end.
C30_OrderOnlyByMove ==
    [][/\ ~OrderKept => (move_active_task_up \/ move_active_task_down)
       /\ \A c \in Ids(tasks') \ Ids(tasks) : place(tasks', c) = Len(tasks')]_vars

\* C30: a list of three tasks out of its insertion order, after a delete
C30_Witness ==
    /\ Len(tasks) = 2
    /\ clock = 3
    /\ tasks[1].creation_date > tasks[2].creation_date

\* The mode whose duration each of the first three settings holds
Modes_by_selection == <<"Pomodoro", "ShortBreak", "LongBreak">>

\* One of the three durations after a step of one minute, floor at one minute
one_minute(d, increase) ==
    IF increase THEN d + SecsPerMin
    ELSE IF d = SecsPerMin THEN d ELSE d - SecsPerMin

C28_PausedFollowsSetting ==
    [][\A increase \in BOOLEAN :
          modify_setting(increase) =>
             IF state = "Paused"
             THEN time_remaining' = duration(mode', settings') /\ state' = "Paused"
             ELSE UNCHANGED <<state, time_remaining>>]_vars

\* C28: the duration of the running mode was lowered below the time that
\* is left on the countdown
C28_Witness ==
    /\ state = "Running"
    /\ time_remaining > duration(mode, settings)

\* C29: once should_quit is set the driver applies no further user intent:
\* the tick block of that iteration may still run, then the state is saved
\* and run_app returns, the file holding the state at that moment; the file
\* is written at no other point of the run.
C29_QuitSavesThenExits ==
    /\ [][(should_quit /\ Alive) => (save \/ \E e \in TickElapsed : tick(e))]_vars
    /\ [][disk' # disk => (~exited /\ exited')]_vars
    /\ [][(~exited /\ exited') =>
             /\ should_quit
             /\ disk' = Some(to_snapshot)
             /\ UNCHANGED appvars]_vars
    /\ (should_quit /\ Alive) ~> exited

\* C29: the run is over, the file holds the state as it was left, a
\* completed task and a countdown cut short
C29_Witness ==
    /\ exited
    /\ should_quit
    /\ disk = Some(to_snapshot)
    /\ Done # {}
    /\ tasks[1].time_spent > 0

\* C31: in every reachable state, the state right after startup under the
\* durations of the settings file or of the command line included, each of
\* the three configured durations is at least one minute.
C31_AtLeastOneMinute ==
    \A m \in Modes : duration(m, settings) >= SecsPerMin

\* C32: from the default state, active_task_index is None or below the number
\* of tasks: it never points past the end of the list, also after the task it
\* points at was deleted or the list became empty.
C32_ActiveInRange ==
    active_task_index = None \/ unwrap(active_task_index) < Len(tasks)

\* C33: the timer is Running only over an existing, uncompleted active task:
\* no sequence of toggle, tick, completion, navigation, move, delete or
\* settings operations leaves state = Running without one.
C33_RunningHasOpenTask ==
    state = "Running" => ActiveUncompleted

\* C33: the timer runs after a session has finished and a task was deleted
C33_Witness ==
    /\ state = "Running"
    /\ ActiveUncompleted
    /\ clock > Len(tasks)
    /\ pomodoros_completed_total > 0

\* C34: in every reachable state time_remaining is at most the configured
\* duration of the current mode, so the progress ratio of the timer view lies
\* in [0, 1]; also after the duration of the running mode is decreased.
C34_RemainingWithinDuration ==
    time_remaining <= duration(mode, settings)

\* Pomodoro counts of the tasks from position k on, added up
RECURSIVE pomodoros_from(_, _)
pomodoros_from(ts, k) ==
    IF k > Len(ts) THEN 0 ELSE ts[k].pomodoros + pomodoros_from(ts, k + 1)

\* No task of the run has been deleted: the list holds every task created
NothingDeleted == Len(tasks) = clock

\* C35: each finished Pomodoro adds one to the pomodoro count of exactly one
\* task, the active one, and one to the session counter; the pomodoro counts of
\* the tasks add up to at most pomodoros_completed_total, and to exactly that
\* while no task has been deleted.
C35_SessionsCredited ==
    /\ [](pomodoros_from(tasks, 1) <= pomodoros_completed_total)
    /\ [](NothingDeleted => pomodoros_from(tasks, 1) = pomodoros_completed_total)
    /\ [][pomodoros_completed_total' # pomodoros_completed_total =>
             /\ pomodoros_completed_total' = pomodoros_completed_total + 1
             /\ finished_mode' = "Pomodoro"
             /\ is_some(active_task_index)
             /\ in_range(unwrap(active_task_index), tasks)
             /\ tasks' = [tasks EXCEPT ![unwrap(active_task_index) + 1].pomodoros = @ + 1]]_vars
    /\ [][finished_mode' = "Pomodoro" =>
             pomodoros_completed_total' = pomodoros_completed_total + 1]_vars

\* C35: two sessions finished over two tasks, one session each
C35_Witness ==
    /\ pomodoros_completed_total = 2
    /\ Len(tasks) = 2
    /\ tasks[1].pomodoros = 1
    /\ tasks[2].pomodoros = 1

\* C35: a task that earned a session was deleted: the counts fall short
C35_WitnessDeleted ==
    /\ pomodoros_completed_total = 1
    /\ ~NothingDeleted
    /\ pomodoros_from(tasks, 1) = 0

\* The selected setting is not the duration of the current mode
SelectionBesideMode ==
    settings_selection > 2 \/ Modes_by_selection[settings_selection + 1] # mode

\* C36: modify_setting on a setting that does not determine the duration of
\* the current mode (the theme, the notifications flag, the duration of
\* another mode) leaves mode, state and time_remaining unchanged, so a paused,
\* partly elapsed session keeps its remaining time.
C36_OtherSettingKeepsTimer ==
    [][((\E increase \in BOOLEAN : modify_setting(increase)) /\ SelectionBesideMode)
          => UNCHANGED <<mode, state, time_remaining>>]_vars

\* The views that are left towards previous_view
Overlays == {"Settings", "TaskDetails"}

\* C37: in the Normal input mode the back key of an overlay view leads to a
\* different view: while the Settings or the TaskDetails view is on screen,
\* previous_view is another view, so Tab in Settings and Esc or Enter in
\* TaskDetails always change current_view.
C37_BackLeavesOverlay ==
    current_view \in Overlays => previous_view # current_view

\* The bounds of the timer left alone leave room for the ticks up to the end
\* of the session
LiveRoom ==
    /\ ActiveUncompleted
    /\ at(tasks, unwrap(active_task_index)).time_spent + time_remaining
          <= MaxLiveSpentMins * SecsPerMin
    /\ pomodoros_completed_total < MaxLiveSessions

\* C38: while the timer is Running and the loop keeps ticking, the session
\* finishes and the mode advances unless the user stops the timer; a tick
\* never stops the timer, and the modes alternate Pomodoro, break, Pomodoro;
\* also from time_remaining = 0 after a tick that landed exactly on it.
C38_CyclesOnItsOwn ==
    /\ \A m \in Modes :
          (state = "Running" /\ mode = m /\ LiveRoom) ~> (mode # m \/ state = "Paused")
    /\ [][(state = "Running" /\ \E e \in TickElapsed : tick(e)) => state' = "Running"]_vars
    /\ [][mode' # mode => (mode = "Pomodoro") # (mode' = "Pomodoro")]_vars

\* C38: the timer runs at time_remaining = 0 in the long break after four
\* sessions: the tick landed exactly on the end of the break
C38_Witness ==
    /\ state = "Running"
    /\ mode = "LongBreak"
    /\ pomodoros_completed_total = 4
    /\ time_remaining = 0
    /\ LiveRoom

====
